---------------------------- MODULE Spec2Model ----------------------------
(***************************************************************************)
(* BackupEntriesCollector (src/src/Backups/BackupEntriesCollector.cpp).    *)
(*                                                                         *)
(* Spec      : one collector instance over a catalog nobody mutates:       *)
(*             getBackupEntries with its staged pipeline, the scan, the    *)
(*             add* API used by storages and tasks, the task queue.        *)
(* SpecScan  : one collector instance over a catalog that other activity   *)
(*             mutates while the scan runs; nobody calls the add* API.     *)
(* SpecHosts : several hosts running getBackupEntries against one          *)
(*             coordination service (stage barrier).                       *)
(***************************************************************************)
EXTENDS Integers, Sequences, FiniteSets, TLC

(***************************************************************************)
(* Bounds of the exploration.                                              *)
(***************************************************************************)
\* calls of getBackupEntries on one instance
MaxCalls == 2
\* calls of addBackupEntry / addBackupEntries / addPostCollectingTask
MaxAdds == 2
\* catalog mutations by other activity during one scan (SpecScan)
MaxMutations == 2
\* passes of the scan loop that may be started
MaxPasses == 3

(***************************************************************************)
(* Stage (the enum listed in toString).                                    *)
(***************************************************************************)
kPreparing == "Preparing"
kFindingTables == "FindingTables"
kExtractingDataFromTables == "ExtractingDataFromTables"
kRunningPostTasks == "RunningPostTasks"
kWritingBackup == "WritingBackup"
kError == "Error"

Stages ==
    {kPreparing, kFindingTables, kExtractingDataFromTables, kRunningPostTasks,
     kWritingBackup, kError}

(***************************************************************************)
(* The statements of the try block of getBackupEntries after the entry     *)
(* check and the root path, in program order.                              *)
(***************************************************************************)
ProgramSwapped ==
    << "setFindingTables", "collect", "dbDefs", "tblDefs",
       "tablesData", "setExtracting",
       "setPostTasks", "postTasks",
       "setWriting", "return" >>

Program ==
    << "setFindingTables", "collect", "dbDefs", "tblDefs",
       "setExtracting", "tablesData",
       "setPostTasks", "postTasks",
       "setWriting", "return" >>

IndexOf(l) == CHOOSE i \in 1..Len(Program) : Program[i] = l

NextLabel(l) == Program[IndexOf(l) + 1]

\* the argument of each setStage call of the try block
StageArgSkipping(l) ==
    CASE l = "setFindingTables" -> kFindingTables
      [] l = "setExtracting" -> kRunningPostTasks
      [] l = "setPostTasks" -> kRunningPostTasks
      [] l = "setWriting" -> kWritingBackup

StageArg(l) ==
    CASE l = "setFindingTables" -> kFindingTables
      [] l = "setExtracting" -> kExtractingDataFromTables
      [] l = "setPostTasks" -> kRunningPostTasks
      [] l = "setWriting" -> kWritingBackup

SetLabels == {"setFindingTables", "setExtracting", "setPostTasks", "setWriting"}

(***************************************************************************)
(* The catalog: database and table objects with identity.                  *)
(***************************************************************************)
DbNames == {"d1", "d2"}
TableNames == {"a", "b"}
DbObjs == {"o1", "o2"}
TableObjs == {"s1", "s2"}
\* the database part of the name of a temporary table
NoDbName == ""
\* the holder of temporary tables (Context::ResolveExternal)
TempDb == "external"
\* an empty DatabasePtr / StoragePtr
Null == "null"


(***************************************************************************)
(* State.                                                                  *)
(***************************************************************************)
VARIABLES
    \* ---- members of BackupEntriesCollector
    current_stage,            \* Stage
    root_path_in_backup,      \* fs::path, as its sequence of components
    backup_entries,           \* BackupEntries
    post_collecting_tasks,    \* std::queue of tasks (task ids)
    database_infos,           \* std::map name -> DatabaseInfo
    table_infos,              \* std::map TableKey -> TableInfo
    consistent,               \* bool
    previous_database_names,  \* std::optional<std::set<String>>: <<>> or <<set>>
    previous_table_names,     \* std::optional<std::set<TableKey>>: <<>> or <<set>>
    \* ---- constructor arguments
    backup_query_elements,    \* ASTBackupQuery::Elements
    structure_only,           \* backup_settings.structure_only
    host_id,                  \* backup_settings.host_id
    use_timeout,              \* timeout.count() >= 0
    \* ---- the control state of getBackupEntries
    pc,                       \* "idle" (no call in progress) or the statement reached
    in_sync,                  \* inside backup_coordination->syncStage
    exc,                      \* the exception in flight ("none" if none)
    pass,                     \* the local `pass` of collectDatabasesAndTablesInfo
    scan_pc,                  \* "begin" | "elements" inside the do-while
    elem,                     \* index of the next query element
    all_iter,                 \* collectAllDatabasesInfo: <<>> or <<names left>>
    db_frame,                 \* collectDatabaseInfo in progress: <<>> or <<frame>>
    tbl_frame,                \* collectTableInfo in progress: <<>> or <<frame>>
    data_todo,                \* makeBackupEntriesForTablesData: <<>> or <<keys left>>
    cur_task,                 \* the task being executed (0 if none)
    \* ---- the environment
    databases,                \* catalog: database name -> database object
    tables,                   \* catalog: table object -> [db, name]
    table_locks,              \* shared locks the collector holds, per table object
    deadline_passed,          \* steady_clock::now() - start_time > timeout
    mutations_left,           \* catalog mutations still explored
    views,                    \* what the query selected in each catalog content so far
    last_pass,                \* the names and keys the pass that ended last had collected
    first_mutation,           \* the first mutation of the catalog during the scan
    \* ---- what an observer of the collector sees
    calls,                    \* calls of getBackupEntries begun
    result,                   \* of the last call: "none" | "running" | "returned" | "failed"
    raised,                   \* the exception the last call ended with
    returned,                 \* the BackupEntries the last call returned (none: << >>)
    thrown,                   \* the exception first thrown inside the last call
    failures,                 \* exceptions that reached the catch block
    error_broadcasts,         \* calls of syncStageError
    broadcast_ok,             \* whether the last syncStageError returned normally
    sync_calls,               \* calls of syncStage, per stage
    call_worked,              \* the current call ran some collection step
    add_calls,                \* calls of addBackupEntry / addBackupEntries / addPostCollectingTask
    last_add,                 \* "none" | "ok" | "LOGICAL_ERROR": outcome of the last add call
    sealed,                   \* current_stage has been kWritingBackup
    enqueued,                 \* every task ever pushed, in push order, with the task
                              \* that was running when it was pushed (0 if none)
    ran,                      \* every task ever started, in start order
    \* ---- SpecHosts: one collector per host
    hstage,                   \* host -> current_stage
    hpc,                      \* host -> statement reached ("done", "failed" at the end)
    hin_sync,                 \* host -> inside syncStage
    reported,                 \* coordination: host -> stages reported by syncStage
    herror,                   \* coordination: hosts that called syncStageError
    hstarted,                 \* host -> work steps begun
    hfinished                 \* host -> work steps completed

memberVars ==
    << current_stage, root_path_in_backup, backup_entries, post_collecting_tasks,
       database_infos, table_infos, consistent, previous_database_names,
       previous_table_names >>

argVars == << backup_query_elements, structure_only, host_id, use_timeout >>

controlVars ==
    << pc, in_sync, exc, pass, scan_pc, elem, all_iter, db_frame, tbl_frame,
       data_todo, cur_task >>

envVars ==
    << databases, tables, table_locks, deadline_passed, mutations_left, views,
       last_pass, first_mutation >>

observerVars ==
    << calls, result, raised, returned, thrown, failures, error_broadcasts,
       broadcast_ok, sync_calls, call_worked, add_calls, last_add, sealed,
       enqueued, ran >>

hostVars == << hstage, hpc, hin_sync, reported, herror, hstarted, hfinished >>

vars == << memberVars, argVars, controlVars, envVars, observerVars, hostVars >>

scanVars ==
    << database_infos, table_infos, consistent, previous_database_names,
       previous_table_names, pass, scan_pc, elem, all_iter, db_frame, tbl_frame >>

(***************************************************************************)
(* Catalog lookups (DatabaseCatalog, Context::resolveStorageID, IStorage). *)
(***************************************************************************)
DroppedTable == [db |-> Null, name |-> Null]

\* the name under which database object o is attached now
NameOfDb(o) ==
    IF o = TempDb THEN NoDbName
    ELSE IF \E n \in DbNames : databases[n] = o
         THEN CHOOSE n \in DbNames : databases[n] = o
         ELSE Null

\* the holder a lookup of (database name, temporary flag) searches
HolderOf(dbname, temp) ==
    IF temp THEN TempDb
    ELSE IF dbname \in DbNames THEN databases[dbname] ELSE Null

\* resolveStorageID + getDatabaseAndTable: the table object, or Null
ResolveTable(dbname, tname, temp) ==
    LET h == HolderOf(dbname, temp)
        found == {s \in TableObjs : h # Null /\ tables[s].db = h /\ tables[s].name = tname}
    IN  IF found = {} THEN Null ELSE CHOOSE s \in found : TRUE

TableExists(s) == tables[s].db # Null

\* the names getTablesIteratorForBackup of database object o yields
TablesOfDb(o) == {tables[s].name : s \in {x \in TableObjs : tables[x].db = o}}

\* the fields of the ASTCreateQuery getCreateQueryForBackup returns for s
CreateOfTable(s) ==
    [table |-> tables[s].name,
     database |-> NameOfDb(tables[s].db),
     temporary |-> (tables[s].db = TempDb)]

HeldStorages == {s \in TableObjs : table_locks[s] > 0}

\* table objects the collector still references
ReferencedStorages ==
    {table_infos[k].storage : k \in DOMAIN table_infos}
        \cup {tbl_frame[i].storage : i \in DOMAIN tbl_frame}

ReferencedDatabases ==
    {database_infos[n] : n \in DOMAIN database_infos}
        \cup {table_infos[k].database : k \in DOMAIN table_infos}
        \cup {tbl_frame[i].database : i \in DOMAIN tbl_frame}
        \cup {db_frame[i].database : i \in DOMAIN db_frame}

(***************************************************************************)
(* TableKey and the iteration order of the std::map containers.            *)
(***************************************************************************)
TableKey(dbname, tname, temp) ==
    [database |-> dbname, table |-> tname, is_temporary |-> temp]

NameRank(n) ==
    CASE n = NoDbName -> 0
      [] n = "a" -> 1
      [] n = "b" -> 2
      [] n = "d1" -> 3
      [] n = "d2" -> 4

\* TableKey::operator <
KeyLess(l, r) ==
    \/ NameRank(l.database) < NameRank(r.database)
    \/ /\ l.database = r.database
       /\ NameRank(l.table) < NameRank(r.table)
    \/ /\ l.database = r.database
       /\ l.table = r.table
       /\ ~l.is_temporary /\ r.is_temporary

RECURSIVE SortedKeys(_)
SortedKeys(ks) ==
    IF ks = {} THEN << >>
    ELSE LET m == CHOOSE k \in ks : \A o \in ks \ {k} : KeyLess(k, o)
         IN  <<m>> \o SortedKeys(ks \ {m})

RECURSIVE SortedNames(_)
SortedNames(ns) ==
    IF ns = {} THEN << >>
    ELSE LET m == CHOOSE n \in ns : \A o \in ns \ {n} : NameRank(n) < NameRank(o)
         IN  <<m>> \o SortedNames(ns \ {m})

(***************************************************************************)
(* Groups of variables an action leaves alone.                             *)
(***************************************************************************)
catalogVars ==
    << databases, tables, mutations_left, views, last_pass, first_mutation >>
taskVars == << post_collecting_tasks, enqueued, ran, cur_task >>
addVars == << add_calls, last_add >>
callVars == << calls, result, raised, returned >>
errVars == << exc, thrown, failures >>
bcastVars == << error_broadcasts, broadcast_ok >>

(***************************************************************************)
(* Backup entries: (path, content) pairs.  `id` tells the entries added    *)
(* through addBackupEntry / addBackupEntries apart.                        *)
(***************************************************************************)
MetadataEntry(path) == [kind |-> "metadata", path |-> path, id |-> 0]
AddedEntry(n, i) == [kind |-> "added", path |-> <<"file">>, id |-> 2 * n + i]

(***************************************************************************)
(* calculateRootPathInBackup: "/" or "/" / "shards" / <shard> / "replicas" *)
(* / <replica>, a path held as its components.  findShardNumAndReplicaNum  *)
(* is BackupSettings::Util code; this host is found as shard 1, replica 0. *)
(***************************************************************************)
ShardNumText == "1"
ReplicaNumText == "0"

CalculateRootPathInBackup ==
    IF host_id # ""
    THEN <<"/">> \o <<"shards", ShardNumText, "replicas", ReplicaNumText>>
    ELSE <<"/">>

(***************************************************************************)
(* An exception leaves the try block of getBackupEntries.                  *)
(***************************************************************************)
Throw(code) ==
    /\ exc' = code
    /\ thrown' = code
    /\ failures' = failures + 1
    /\ pc' = "catch"

(***************************************************************************)
(* getBackupEntries, lines 73-85: the entry check, the root path and the   *)
(* renaming map.                                                           *)
(***************************************************************************)
AlreadyStartedNever == FALSE

AlreadyStarted == current_stage # kPreparing

GetBackupEntries ==
    /\ pc = "idle"
    /\ calls < MaxCalls
    /\ calls' = calls + 1
    /\ result' = "running"
    /\ returned' = << >>
    /\ call_worked' = FALSE
    /\ IF AlreadyStarted
       THEN /\ Throw("LOGICAL_ERROR")
            /\ UNCHANGED root_path_in_backup
       ELSE /\ root_path_in_backup' = CalculateRootPathInBackup
            /\ pc' = Program[1]
            /\ UNCHANGED errVars
    /\ UNCHANGED << current_stage, backup_entries, raised, in_sync,
                    data_todo, table_locks, deadline_passed, sync_calls, sealed,
                    scanVars, catalogVars, taskVars, addVars, bcastVars,
                    argVars, hostVars >>

(***************************************************************************)
(* setStage(new_stage) for a non-error stage, lines 130 and 136-140: the   *)
(* assignment and the call of syncStage, which then blocks.                *)
(***************************************************************************)
SetStage ==
    /\ pc \in SetLabels
    /\ ~in_sync
    /\ current_stage' = StageArg(pc)
    /\ sync_calls' = [sync_calls EXCEPT ![StageArg(pc)] = @ + 1]
    /\ sealed' = (sealed \/ StageArg(pc) = kWritingBackup)
    /\ in_sync' = TRUE
    /\ UNCHANGED << root_path_in_backup, backup_entries, pc, data_todo,
                    table_locks, deadline_passed, call_worked,
                    scanVars, catalogVars, taskVars, addVars, callVars, errVars,
                    bcastVars, argVars, hostVars >>

\* syncStage returns: every host of the set reported the stage
SyncStageReturns ==
    /\ pc \in SetLabels
    /\ in_sync
    /\ in_sync' = FALSE
    /\ pc' = NextLabel(pc)
    /\ UNCHANGED << current_stage, root_path_in_backup, backup_entries, data_todo,
                    table_locks, deadline_passed, sync_calls, call_worked, sealed,
                    scanVars, catalogVars, taskVars, addVars, callVars, errVars,
                    bcastVars, argVars, hostVars >>

\* syncStage throws: the timeout elapsed or a peer reported an error
SyncStageFails ==
    /\ pc \in SetLabels
    /\ in_sync
    /\ in_sync' = FALSE
    /\ Throw("SYNC_FAILED")
    /\ UNCHANGED << current_stage, root_path_in_backup, backup_entries, data_todo,
                    table_locks, deadline_passed, sync_calls, call_worked, sealed,
                    scanVars, catalogVars, taskVars, addVars, callVars,
                    bcastVars, argVars, hostVars >>

(***************************************************************************)
(* The catch block, lines 110-120: setStage(kError, message), whose own    *)
(* failure is swallowed, then `throw;`.                                    *)
(***************************************************************************)
RethrownInner(original, ok) == IF ok THEN original ELSE "BROADCAST_FAILED"

\* `throw;` after the inner try/catch rethrows the exception being handled
Rethrown(original, ok) == original

\* line 130 under new_stage == kError
StageAfterCatch(stage) == kError

CatchAndRethrow ==
    /\ pc = "catch"
    /\ \E ok \in BOOLEAN :
        /\ current_stage' = StageAfterCatch(current_stage)
        /\ error_broadcasts' = error_broadcasts + 1
        /\ broadcast_ok' = ok
        /\ raised' = Rethrown(exc, ok)
    /\ exc' = "none"
    /\ result' = "failed"
    /\ pc' = "idle"
    /\ UNCHANGED << root_path_in_backup, backup_entries, in_sync, data_todo,
                    table_locks, deadline_passed, sync_calls, call_worked, sealed,
                    calls, returned, thrown, failures,
                    scanVars, catalogVars, taskVars, addVars, argVars, hostVars >>

(***************************************************************************)
(* return std::move(backup_entries), line 108.                             *)
(***************************************************************************)
ReturnEntries ==
    /\ pc = "return"
    /\ returned' = backup_entries
    /\ backup_entries' = << >>
    /\ result' = "returned"
    /\ raised' = "none"
    /\ pc' = "idle"
    /\ UNCHANGED << current_stage, root_path_in_backup, in_sync, data_todo,
                    table_locks, deadline_passed, sync_calls, call_worked, sealed,
                    calls, scanVars, catalogVars, taskVars, addVars, errVars,
                    bcastVars, argVars, hostVars >>

(***************************************************************************)
(* makeBackupEntriesForDatabasesDefs / makeBackupEntriesForTablesDefs:     *)
(* one metadata entry per collected database / table, in map order.  The   *)
(* file name "<name>.sql" is held as the components <name>, ".sql".        *)
(***************************************************************************)
DatabaseMetadataPath(name) == root_path_in_backup \o <<"metadata", name, ".sql">>

TableMetadataPath(key) ==
    IF key.is_temporary
    THEN root_path_in_backup \o <<"temporary_tables", "metadata", key.table, ".sql">>
    ELSE root_path_in_backup \o <<"metadata", key.database, key.table, ".sql">>

MakeBackupEntriesForDatabasesDefs ==
    /\ pc = "dbDefs"
    /\ LET names == SortedNames(DOMAIN database_infos)
       IN  backup_entries' = backup_entries \o
               [i \in 1..Len(names) |-> MetadataEntry(DatabaseMetadataPath(names[i]))]
    /\ call_worked' = TRUE
    /\ pc' = NextLabel(pc)
    /\ UNCHANGED << current_stage, root_path_in_backup, in_sync, data_todo,
                    table_locks, deadline_passed, sync_calls, sealed,
                    scanVars, catalogVars, taskVars, addVars, callVars, errVars,
                    bcastVars, argVars, hostVars >>

MakeBackupEntriesForTablesDefs ==
    /\ pc = "tblDefs"
    /\ LET keys == SortedKeys(DOMAIN table_infos)
       IN  backup_entries' = backup_entries \o
               [i \in 1..Len(keys) |-> MetadataEntry(TableMetadataPath(keys[i]))]
    /\ call_worked' = TRUE
    /\ pc' = NextLabel(pc)
    /\ UNCHANGED << current_stage, root_path_in_backup, in_sync, data_todo,
                    table_locks, deadline_passed, sync_calls, sealed,
                    scanVars, catalogVars, taskVars, addVars, callVars, errVars,
                    bcastVars, argVars, hostVars >>

(***************************************************************************)
(* makeBackupEntriesForTablesData, lines 486-499.                          *)
(***************************************************************************)
TablesToExportAlways == SortedKeys(DOMAIN table_infos)

\* the tables whose storage is asked to export data
TablesToExport == IF structure_only THEN << >> ELSE SortedKeys(DOMAIN table_infos)

MakeBackupEntriesForTablesDataBegin ==
    /\ pc = "tablesData"
    /\ data_todo = << >>
    /\ data_todo' = << TablesToExport >>
    /\ UNCHANGED << current_stage, root_path_in_backup, backup_entries, pc, in_sync,
                    table_locks, deadline_passed, sync_calls, call_worked, sealed,
                    scanVars, catalogVars, taskVars, addVars, callVars, errVars,
                    bcastVars, argVars, hostVars >>

\* storage->backupData(...) of the next table returns
BackupDataReturns ==
    /\ pc = "tablesData"
    /\ data_todo # << >>
    /\ data_todo[1] # << >>
    /\ data_todo' = << Tail(data_todo[1]) >>
    /\ call_worked' = TRUE
    /\ UNCHANGED << current_stage, root_path_in_backup, backup_entries, pc, in_sync,
                    table_locks, deadline_passed, sync_calls, sealed,
                    scanVars, catalogVars, taskVars, addVars, callVars, errVars,
                    bcastVars, argVars, hostVars >>

\* storage->backupData(...) throws, e.g. through throwPartitionsNotSupported
BackupDataThrows ==
    /\ pc = "tablesData"
    /\ data_todo # << >>
    /\ data_todo[1] # << >>
    /\ data_todo' = << >>
    /\ call_worked' = TRUE
    /\ Throw("CANNOT_BACKUP_TABLE")
    /\ UNCHANGED << current_stage, root_path_in_backup, backup_entries, in_sync,
                    table_locks, deadline_passed, sync_calls, sealed,
                    scanVars, catalogVars, taskVars, addVars, callVars,
                    bcastVars, argVars, hostVars >>

MakeBackupEntriesForTablesDataEnd ==
    /\ pc = "tablesData"
    /\ data_todo = << << >> >>
    /\ data_todo' = << >>
    /\ pc' = NextLabel(pc)
    /\ UNCHANGED << current_stage, root_path_in_backup, backup_entries, in_sync,
                    table_locks, deadline_passed, sync_calls, call_worked, sealed,
                    scanVars, catalogVars, taskVars, addVars, callVars, errVars,
                    bcastVars, argVars, hostVars >>

(***************************************************************************)
(* runPostCollectingTasks, lines 530-539.                                  *)
(***************************************************************************)
\* the task the loop takes and what it leaves in the queue
TakeLast(q) == [task |-> q[Len(q)], rest |-> SubSeq(q, 1, Len(q) - 1)]

TakeFront(q) == [task |-> Head(q), rest |-> Tail(q)]

\* the loop condition: whether the drain is over
DrainOver(q) == q = << >>

RunPostCollectingTask ==
    /\ pc = "postTasks"
    /\ ~DrainOver(post_collecting_tasks)
    /\ post_collecting_tasks # << >>
    /\ cur_task' = TakeFront(post_collecting_tasks).task
    /\ post_collecting_tasks' = TakeFront(post_collecting_tasks).rest
    /\ ran' = Append(ran, TakeFront(post_collecting_tasks).task)
    /\ call_worked' = TRUE
    /\ pc' = "inTask"
    /\ UNCHANGED << current_stage, root_path_in_backup, backup_entries, in_sync,
                    data_todo, table_locks, deadline_passed, sync_calls, sealed,
                    enqueued, scanVars, catalogVars, addVars, callVars, errVars,
                    bcastVars, argVars, hostVars >>

PostTaskReturns ==
    /\ pc = "inTask"
    /\ cur_task' = 0
    /\ pc' = "postTasks"
    /\ UNCHANGED << current_stage, root_path_in_backup, backup_entries, in_sync,
                    data_todo, table_locks, deadline_passed, sync_calls, call_worked,
                    sealed, post_collecting_tasks, enqueued, ran,
                    scanVars, catalogVars, addVars, callVars, errVars,
                    bcastVars, argVars, hostVars >>

PostTaskThrows ==
    /\ pc = "inTask"
    /\ cur_task' = 0
    /\ Throw("TASK_FAILED")
    /\ UNCHANGED << current_stage, root_path_in_backup, backup_entries, in_sync,
                    data_todo, table_locks, deadline_passed, sync_calls, call_worked,
                    sealed, post_collecting_tasks, enqueued, ran,
                    scanVars, catalogVars, addVars, callVars,
                    bcastVars, argVars, hostVars >>

RunPostCollectingTasksEnd ==
    /\ pc = "postTasks"
    /\ DrainOver(post_collecting_tasks)
    /\ pc' = NextLabel(pc)
    /\ UNCHANGED << current_stage, root_path_in_backup, backup_entries, in_sync,
                    data_todo, table_locks, deadline_passed, sync_calls, call_worked,
                    sealed, scanVars, catalogVars, taskVars, addVars, callVars,
                    errVars, bcastVars, argVars, hostVars >>

(***************************************************************************)
(* addBackupEntry, addBackupEntries (both overloads), addPostCollectingTask*)
(* lines 501-527.  The pipeline is one sequential thread: these are called *)
(* by whoever holds the collector while no call is running, and by the     *)
(* storages and tasks the pipeline calls into.                             *)
(***************************************************************************)
CollaboratorRunning ==
    \/ pc = "idle"
    \/ pc = "collect" /\ tbl_frame # << >>
    \/ pc = "tablesData" /\ data_todo # << >> /\ data_todo[1] # << >>
    \/ pc = "inTask"

\* the guard of the three add methods
AddRejectedNever == FALSE

AddRejected == current_stage = kWritingBackup

AddBackupEntry ==
    /\ CollaboratorRunning
    /\ add_calls < MaxAdds
    /\ add_calls' = add_calls + 1
    /\ IF AddRejected
       THEN /\ last_add' = "LOGICAL_ERROR"
            /\ UNCHANGED backup_entries
       ELSE /\ last_add' = "ok"
            /\ backup_entries' = Append(backup_entries, AddedEntry(add_calls, 0))
    /\ UNCHANGED << current_stage, root_path_in_backup, pc, in_sync, data_todo,
                    table_locks, deadline_passed, sync_calls, call_worked, sealed,
                    scanVars, catalogVars, taskVars, callVars, errVars,
                    bcastVars, argVars, hostVars >>

AddBackupEntries ==
    /\ CollaboratorRunning
    /\ add_calls < MaxAdds
    /\ add_calls' = add_calls + 1
    /\ IF AddRejected
       THEN /\ last_add' = "LOGICAL_ERROR"
            /\ UNCHANGED backup_entries
       ELSE /\ last_add' = "ok"
            /\ backup_entries' =
                   backup_entries \o << AddedEntry(add_calls, 0), AddedEntry(add_calls, 1) >>
    /\ UNCHANGED << current_stage, root_path_in_backup, pc, in_sync, data_todo,
                    table_locks, deadline_passed, sync_calls, call_worked, sealed,
                    scanVars, catalogVars, taskVars, callVars, errVars,
                    bcastVars, argVars, hostVars >>

AddPostCollectingTask ==
    /\ CollaboratorRunning
    /\ add_calls < MaxAdds
    /\ add_calls' = add_calls + 1
    /\ IF AddRejected
       THEN /\ last_add' = "LOGICAL_ERROR"
            /\ UNCHANGED << post_collecting_tasks, enqueued >>
       ELSE /\ last_add' = "ok"
            /\ post_collecting_tasks' = Append(post_collecting_tasks, Len(enqueued) + 1)
            /\ enqueued' = Append(enqueued, [id |-> Len(enqueued) + 1, by |-> cur_task])
    /\ UNCHANGED << current_stage, root_path_in_backup, backup_entries, pc, in_sync,
                    data_todo, table_locks, deadline_passed, sync_calls, call_worked,
                    sealed, ran, cur_task, scanVars, catalogVars, callVars, errVars,
                    bcastVars, argVars, hostVars >>

(***************************************************************************)
(* collectDatabasesAndTablesInfo and the functions it calls.  A step is a  *)
(* stretch of code between two accesses to the live catalog; other         *)
(* activity may mutate the catalog between two steps.                      *)
(***************************************************************************)
NoFrames == all_iter = << >> /\ db_frame = << >> /\ tbl_frame = << >>

NoLocks == [s \in TableObjs |-> 0]

\* storage->lockForShare(...) returned a TableLockHolder, lines 243 and 258
LockForShare(locks, s) == [locks EXCEPT ![s] = @ + 1]

ReleaseLockNever(locks, s) == locks

\* a TableLockHolder is destroyed: the local `table_lock` when collectTableInfo
\* returns without an entry, the holder an assignment at line 311 replaces
ReleaseLock(locks, s) == [locks EXCEPT ![s] = @ - 1]

\* table_infos.clear(), line 168: the holder of every entry is destroyed
ReleaseAll(locks, infos) ==
    [s \in TableObjs |->
        locks[s] - Cardinality({k \in DOMAIN infos : infos[k].storage = s})]

\* std::map operator[] followed by the assignment of the value
MapPut(m, k, v) == [x \in (DOMAIN m) \cup {k} |-> IF x = k THEN v ELSE m[x]]

\* `if (!consistent) return;` in the loop of collectAllDatabasesInfo, and its end
AllAfterDbReturn(ai, c) ==
    IF ai = << >> THEN << >>
    ELSE IF ~c \/ ai[1].names = {} THEN << >> ELSE ai

\* `if (!consistent) return;` in the loop of collectDatabaseInfo, and its end
DbAfterTableReturn(df, c) ==
    IF df = << >> THEN << >>
    ELSE IF ~c \/ df[1].titer = {} THEN << >> ELSE df

\* the do-while body up to the element loop, lines 167-169
ScanBeginPass ==
    /\ pc = "collect"
    /\ scan_pc = "begin"
    /\ pass < MaxPasses
    /\ database_infos' = << >>
    /\ table_infos' = << >>
    /\ consistent' = TRUE
    /\ table_locks' = ReleaseAll(table_locks, table_infos)
    /\ elem' = 1
    /\ scan_pc' = "elements"
    /\ call_worked' = TRUE
    /\ UNCHANGED << current_stage, root_path_in_backup, backup_entries, pc, in_sync,
                    data_todo, deadline_passed, sync_calls, sealed,
                    previous_database_names, previous_table_names, pass,
                    all_iter, db_frame, tbl_frame,
                    catalogVars, taskVars, addVars, callVars, errVars,
                    bcastVars, argVars, hostVars >>

\* what every step of the element loop leaves alone
ScanFrame ==
    UNCHANGED << current_stage, root_path_in_backup, backup_entries, in_sync,
                 data_todo, deadline_passed, sync_calls, call_worked, sealed,
                 previous_database_names, previous_table_names, pass, scan_pc,
                 catalogVars, taskVars, addVars, callVars, bcastVars, argVars,
                 hostVars >>

\* an exception leaves collectDatabasesAndTablesInfo
ScanThrow(code) ==
    /\ Throw(code)
    /\ all_iter' = << >>
    /\ db_frame' = << >>
    /\ tbl_frame' = << >>
    /\ UNCHANGED << database_infos, table_infos, consistent, table_locks >>

\* collectTableInfo returns to its caller with `consistent` = c
TableReturn(df, c) ==
    /\ consistent' = c
    /\ tbl_frame' = << >>
    /\ db_frame' = DbAfterTableReturn(df, c)
    /\ all_iter' = IF df # << >> /\ DbAfterTableReturn(df, c) = << >>
                   THEN AllAfterDbReturn(all_iter, c)
                   ELSE all_iter

\* collectDatabaseInfo returns to its caller with `consistent` = c
DatabaseReturn(ai, c) ==
    /\ consistent' = c
    /\ db_frame' = << >>
    /\ tbl_frame' = << >>
    /\ all_iter' = AllAfterDbReturn(ai, c)

(***************************************************************************)
(* collectTableInfo, lines 235-252: the key and the resolution of the name.*)
(***************************************************************************)
\* line 270, when create_table_query is empty
ConsistentAfterTableMiss(key) == consistent /\ key \notin DOMAIN table_infos

\* whether a failed lookup throws (resolveStorageID) or not (tryResolveStorageID)
LookupThrowsNever(throw_if_not_found) == FALSE

LookupThrowsAlways(throw_if_not_found) == TRUE

LookupThrowsUnlessRequired(throw_if_not_found) == ~throw_if_not_found

LookupThrows(throw_if_not_found) == throw_if_not_found

CollectTableInfoResolve(dbname, tname, temp, partitions, throw_if_not_found, df) ==
    LET key == TableKey(dbname, tname, temp)
        storage == ResolveTable(dbname, tname, temp)
    IN  IF storage = Null
        THEN IF LookupThrows(throw_if_not_found)
             THEN ScanThrow("UNKNOWN_TABLE")
             ELSE /\ TableReturn(df, ConsistentAfterTableMiss(key))
                  /\ UNCHANGED << database_infos, table_infos, table_locks, pc, errVars >>
        ELSE /\ tbl_frame' = << [key |-> key,
                                 throw_if_not_found |-> throw_if_not_found,
                                 partitions |-> partitions,
                                 database |-> HolderOf(dbname, temp),
                                 storage |-> storage] >>
             /\ db_frame' = df
             /\ UNCHANGED << database_infos, table_infos, consistent, table_locks,
                             all_iter, pc, errVars >>

(***************************************************************************)
(* collectTableInfo, lines 243-244 / 254-266 and 268-321: the lock, the    *)
(* create query, the checks and the entry of table_infos.                  *)
(***************************************************************************)
PartitionsReplaced(old, partitions) ==
    IF partitions = << >> THEN old ELSE << partitions[1] >>

\* insertAtEnd(*res_table_info.partitions, *partitions), lines 316-321
PartitionsAfter(old, partitions) ==
    IF partitions = << >> THEN old
    ELSE IF old = << >> THEN << partitions[1] >>
    ELSE << old[1] \o partitions[1] >>

CollectTableInfoLock ==
    /\ pc = "collect"
    /\ scan_pc = "elements"
    /\ tbl_frame # << >>
    /\ LET f == tbl_frame[1]
           create == CreateOfTable(f.storage)
           known == f.key \in DOMAIN table_infos
       IN  IF ~TableExists(f.storage)
           THEN \* lockForShare throws TABLE_IS_DROPPED
                IF LookupThrows(f.throw_if_not_found)
                THEN ScanThrow("TABLE_IS_DROPPED")
                ELSE /\ TableReturn(db_frame, ConsistentAfterTableMiss(f.key))
                     /\ UNCHANGED << database_infos, table_infos, table_locks, pc, errVars >>
           ELSE IF \/ create.table # f.key.table
                   \/ create.temporary # f.key.is_temporary
                   \/ create.database # f.key.database
           THEN \* renamed between the resolution and the create query
                /\ TableReturn(db_frame, FALSE)
                /\ table_locks' = ReleaseLock(LockForShare(table_locks, f.storage), f.storage)
                /\ UNCHANGED << database_infos, table_infos, pc, errVars >>
           ELSE IF /\ known
                   /\ \/ table_infos[f.key].database # f.database
                      \/ table_infos[f.key].storage # f.storage
           THEN /\ TableReturn(db_frame, FALSE)
                /\ table_locks' = ReleaseLock(LockForShare(table_locks, f.storage), f.storage)
                /\ UNCHANGED << database_infos, table_infos, pc, errVars >>
           ELSE /\ table_infos' =
                       MapPut(table_infos, f.key,
                              [database |-> f.database,
                               storage |-> f.storage,
                               partitions |->
                                   PartitionsAfter(IF known THEN table_infos[f.key].partitions
                                                   ELSE << >>,
                                                   f.partitions)])
                /\ table_locks' = IF known
                                  THEN ReleaseLock(LockForShare(table_locks, f.storage),
                                                   table_infos[f.key].storage)
                                  ELSE LockForShare(table_locks, f.storage)
                /\ TableReturn(db_frame, consistent)
                /\ UNCHANGED << database_infos, pc, errVars >>
    /\ UNCHANGED elem
    /\ ScanFrame

(***************************************************************************)
(* collectDatabaseInfo, lines 330-343: the lookup of the database.         *)
(***************************************************************************)
ConsistentAfterDatabaseMiss(name) == consistent /\ name \notin DOMAIN database_infos

CollectDatabaseInfoGet(name, except_tables, throw_if_not_found, ai) ==
    IF databases[name] = Null
    THEN IF LookupThrows(throw_if_not_found)
         THEN ScanThrow("UNKNOWN_DATABASE")
         ELSE /\ DatabaseReturn(ai, ConsistentAfterDatabaseMiss(name))
              /\ UNCHANGED << database_infos, table_infos, table_locks, pc, errVars >>
    ELSE /\ db_frame' = << [name |-> name,
                            throw_if_not_found |-> throw_if_not_found,
                            except_tables |-> except_tables,
                            database |-> databases[name],
                            phase |-> "got",
                            titer |-> {}] >>
         /\ all_iter' = ai
         /\ UNCHANGED << database_infos, table_infos, consistent, table_locks,
                         tbl_frame, pc, errVars >>

(***************************************************************************)
(* collectDatabaseInfo, lines 333 / 344-382: the create query, the checks, *)
(* the entry of database_infos and the tables iterator.                    *)
(***************************************************************************)
CollectDatabaseInfoCreate ==
    /\ pc = "collect"
    /\ scan_pc = "elements"
    /\ tbl_frame = << >>
    /\ db_frame # << >>
    /\ db_frame[1].phase = "got"
    /\ LET f == db_frame[1]
           current == NameOfDb(f.database)
           names == {t \in TablesOfDb(f.database) : <<f.name, t>> \notin f.except_tables}
       IN  IF current = Null
           THEN \* getCreateDatabaseQueryForBackup throws: the database was dropped
                IF LookupThrows(f.throw_if_not_found)
                THEN ScanThrow("UNKNOWN_DATABASE")
                ELSE /\ DatabaseReturn(all_iter, ConsistentAfterDatabaseMiss(f.name))
                     /\ UNCHANGED << database_infos, table_infos, table_locks, pc, errVars >>
           ELSE IF current # f.name
           THEN /\ DatabaseReturn(all_iter, FALSE)
                /\ UNCHANGED << database_infos, table_infos, table_locks, pc, errVars >>
           ELSE IF f.name \in DOMAIN database_infos /\ database_infos[f.name] # f.database
           THEN /\ DatabaseReturn(all_iter, FALSE)
                /\ UNCHANGED << database_infos, table_infos, table_locks, pc, errVars >>
           ELSE /\ database_infos' = MapPut(database_infos, f.name, f.database)
                /\ IF names = {}
                   THEN DatabaseReturn(all_iter, consistent)
                   ELSE /\ db_frame' = << [f EXCEPT !.phase = "iter", !.titer = names] >>
                        /\ UNCHANGED << consistent, all_iter, tbl_frame >>
                /\ UNCHANGED << table_infos, table_locks, pc, errVars >>
    /\ UNCHANGED elem
    /\ ScanFrame

\* the loop over the tables iterator, lines 382-390
CollectDatabaseInfoNextTable ==
    /\ pc = "collect"
    /\ scan_pc = "elements"
    /\ tbl_frame = << >>
    /\ db_frame # << >>
    /\ db_frame[1].phase = "iter"
    /\ \E t \in db_frame[1].titer :
        CollectTableInfoResolve(db_frame[1].name, t, FALSE, << >>, FALSE,
                                << [db_frame[1] EXCEPT !.titer = @ \ {t}] >>)
    /\ UNCHANGED elem
    /\ ScanFrame

\* the loop of collectAllDatabasesInfo, lines 395-402
CollectAllDatabasesInfoNext ==
    /\ pc = "collect"
    /\ scan_pc = "elements"
    /\ tbl_frame = << >>
    /\ db_frame = << >>
    /\ all_iter # << >>
    /\ \E n \in all_iter[1].names :
        CollectDatabaseInfoGet(n, all_iter[1].except_tables, FALSE,
                               << [all_iter[1] EXCEPT !.names = @ \ {n}] >>)
    /\ UNCHANGED elem
    /\ ScanFrame

(***************************************************************************)
(* The loop over backup_query_elements, lines 172-200.                     *)
(***************************************************************************)
ElementReady ==
    /\ pc = "collect"
    /\ scan_pc = "elements"
    /\ NoFrames
    /\ elem <= Len(backup_query_elements)

ScanElementTable ==
    /\ ElementReady
    /\ backup_query_elements[elem].type \in {"TABLE", "TEMPORARY_TABLE"}
    /\ LET e == backup_query_elements[elem]
       IN  IF e.type = "TABLE"
           THEN CollectTableInfoResolve(e.database_name, e.table_name, FALSE,
                                        e.partitions, TRUE, << >>)
           ELSE CollectTableInfoResolve(NoDbName, e.table_name, TRUE,
                                        e.partitions, TRUE, << >>)
    /\ elem' = elem + 1
    /\ ScanFrame

ScanElementDatabase ==
    /\ ElementReady
    /\ backup_query_elements[elem].type = "DATABASE"
    /\ LET e == backup_query_elements[elem]
       IN  CollectDatabaseInfoGet(e.database_name, e.except_tables, TRUE, << >>)
    /\ elem' = elem + 1
    /\ ScanFrame

\* collectAllDatabasesInfo: DatabaseCatalog::getDatabases(), lines 395-398
ScanElementAll ==
    /\ ElementReady
    /\ backup_query_elements[elem].type = "ALL"
    /\ LET e == backup_query_elements[elem]
           names == {n \in DbNames : databases[n] # Null} \ e.except_databases
       IN  all_iter' = IF names = {} THEN << >>
                       ELSE << [names |-> names, except_tables |-> e.except_tables] >>
    /\ elem' = elem + 1
    /\ UNCHANGED << database_infos, table_infos, consistent, table_locks,
                    db_frame, tbl_frame, pc, errVars >>
    /\ ScanFrame

(***************************************************************************)
(* checkConsistency, lines 406-440: the value of `consistent` and of the   *)
(* two previous_* members when it returns.                                 *)
(***************************************************************************)
DatabasesAgreeAlways == TRUE

\* the cross-database check, lines 412-424
DatabasesAgree ==
    \A k \in DOMAIN table_infos :
        k.database \in DOMAIN database_infos
            => database_infos[k.database] = table_infos[k].database

SameAsPreviousAlways == TRUE

SameAsPreviousDatabasesOnly ==
    /\ previous_database_names # << >>
    /\ previous_database_names[1] = DOMAIN database_infos

\* the comparison with the sets of the previous pass, lines 433-434
SameAsPrevious ==
    /\ previous_database_names # << >>
    /\ previous_table_names # << >>
    /\ previous_database_names[1] = DOMAIN database_infos
    /\ previous_table_names[1] = DOMAIN table_infos

CheckConsistency ==
    IF ~consistent \/ ~DatabasesAgree
    THEN [consistent |-> FALSE,
          previous_database_names |-> previous_database_names,
          previous_table_names |-> previous_table_names]
    ELSE IF ~SameAsPrevious
    THEN [consistent |-> FALSE,
          previous_database_names |-> << DOMAIN database_infos >>,
          previous_table_names |-> << DOMAIN table_infos >>]
    ELSE [consistent |-> TRUE,
          previous_database_names |-> previous_database_names,
          previous_table_names |-> previous_table_names]

(***************************************************************************)
(* The end of the do-while body, lines 204-221.                            *)
(***************************************************************************)
\* the first value of `pass` at which the deadline is looked at, line 208
FirstTimedPass == 2

ScanEndPass ==
    /\ pc = "collect"
    /\ scan_pc = "elements"
    /\ NoFrames
    /\ elem > Len(backup_query_elements)
    /\ LET cc == CheckConsistency
       IN  /\ consistent' = cc.consistent
           /\ previous_database_names' = cc.previous_database_names
           /\ previous_table_names' = cc.previous_table_names
           /\ IF ~cc.consistent /\ pass >= FirstTimedPass /\ use_timeout /\ deadline_passed
              THEN /\ Throw("CANNOT_COLLECT_OBJECTS_FOR_BACKUP")
                   /\ UNCHANGED << pass, scan_pc >>
              ELSE /\ pass' = pass + 1
                   /\ IF cc.consistent
                      THEN pc' = NextLabel(pc) /\ scan_pc' = "done"
                      ELSE pc' = pc /\ scan_pc' = "begin"
                   /\ UNCHANGED errVars
    /\ last_pass' = << [databases |-> DOMAIN database_infos,
                        tables |-> DOMAIN table_infos] >>
    /\ UNCHANGED << current_stage, root_path_in_backup, backup_entries, in_sync,
                    data_todo, table_locks, deadline_passed, sync_calls, call_worked,
                    sealed, database_infos, table_infos, elem, all_iter, db_frame,
                    tbl_frame, databases, tables, mutations_left, views,
                    first_mutation, taskVars, addVars, callVars, bcastVars, argVars, hostVars >>

\* the steady clock passes start_time + timeout; the clock is read at line 207 only
DeadlinePasses ==
    /\ pc = "collect"
    /\ scan_pc = "elements"
    /\ NoFrames
    /\ elem > Len(backup_query_elements)
    /\ use_timeout
    /\ ~deadline_passed
    /\ deadline_passed' = TRUE
    /\ UNCHANGED << memberVars, argVars, controlVars, databases, tables, table_locks,
                    mutations_left, views, last_pass, first_mutation, observerVars,
                    hostVars >>

(***************************************************************************)
(* Other activity on the catalog while the scan runs.  A table on which a  *)
(* shared lock is held is neither dropped nor renamed.                     *)
(***************************************************************************)
MayMutate ==
    /\ pc = "collect"
    /\ scan_pc = "elements"
    /\ mutations_left > 0

NameFree(o, t) == \A s \in TableObjs : ~(tables[s].db = o /\ tables[s].name = t)

AttachedDbs == {databases[n] : n \in {x \in DbNames : databases[x] # Null}}

\* the databases and tables the elements of the query name in a catalog content
SelectedDatabases(dbs) ==
    UNION { IF backup_query_elements[i].type = "DATABASE"
            THEN {n \in {backup_query_elements[i].database_name} : dbs[n] # Null}
            ELSE IF backup_query_elements[i].type = "ALL"
            THEN {n \in DbNames : dbs[n] # Null} \ backup_query_elements[i].except_databases
            ELSE {} : i \in DOMAIN backup_query_elements }

TablesIn(dbs, tbls, n, except_tables) ==
    {TableKey(n, tbls[s].name, FALSE) :
        s \in {x \in TableObjs : /\ dbs[n] # Null
                                 /\ tbls[x].db = dbs[n]
                                 /\ <<n, tbls[x].name>> \notin except_tables}}

SelectedTables(dbs, tbls) ==
    UNION { LET e == backup_query_elements[i]
            IN  CASE e.type = "TABLE" ->
                       {TableKey(e.database_name, e.table_name, FALSE)}
                           \cap TablesIn(dbs, tbls, e.database_name, {})
                  [] e.type = "TEMPORARY_TABLE" ->
                       {TableKey(NoDbName, e.table_name, TRUE) :
                           s \in {x \in TableObjs : tbls[x] = [db |-> TempDb, name |-> e.table_name]}}
                  [] e.type = "DATABASE" ->
                       TablesIn(dbs, tbls, e.database_name, e.except_tables)
                  [] e.type = "ALL" ->
                       UNION {TablesIn(dbs, tbls, n, e.except_tables) :
                                 n \in DbNames \ e.except_databases}
            : i \in DOMAIN backup_query_elements }

View(dbs, tbls) == [databases |-> SelectedDatabases(dbs), tables |-> SelectedTables(dbs, tbls)]

\* what a mutation did, for the observer: its kind, the pass it fell in,
\* whether that pass had made no lookup yet, the table it touched with its key
\* before and after, whether the query selected these keys, and whether the
\* table's name had been enumerated and its definition not yet retrieved
KeyOfTable(t) == TableKey(NameOfDb(t.db), t.name, FALSE)

AwaitsDefinition(s) ==
    \/ /\ tbl_frame # << >>
       /\ tbl_frame[1].storage = s
       /\ ~tbl_frame[1].throw_if_not_found
    \/ /\ tbl_frame = << >>
       /\ db_frame # << >>
       /\ db_frame[1].phase = "iter"
       /\ db_frame[1].database = tables[s].db
       /\ tables[s].name \in db_frame[1].titer

MutationRecord ==
    IF databases' # databases
    THEN [kind |-> "database", pass |-> pass, before_lookups |-> (elem = 1 /\ NoFrames),
          storage |-> Null, from |-> Null, to |-> Null,
          selected |-> FALSE, selected_after |-> FALSE, awaited |-> FALSE]
    ELSE LET s == CHOOSE x \in TableObjs : tables'[x] # tables[x]
             was == TableExists(s)
             is == tables'[s].db # Null
         IN  [kind |-> IF was /\ is THEN "rename" ELSE IF was THEN "drop" ELSE "create",
              pass |-> pass,
              before_lookups |-> (elem = 1 /\ NoFrames),
              storage |-> s,
              from |-> IF was THEN KeyOfTable(tables[s]) ELSE Null,
              to |-> IF is THEN KeyOfTable(tables'[s]) ELSE Null,
              selected |-> was /\ KeyOfTable(tables[s]) \in SelectedTables(databases, tables),
              selected_after |-> is /\ KeyOfTable(tables'[s]) \in SelectedTables(databases, tables'),
              awaited |-> was /\ AwaitsDefinition(s)]

\* the observer keeps the details of a rename of a selected table between
\* the first two passes and of a drop of an awaited table, and of no other
OtherMutation ==
    [kind |-> "other", pass |-> 0, before_lookups |-> FALSE,
     storage |-> Null, from |-> Null, to |-> Null,
     selected |-> FALSE, selected_after |-> FALSE, awaited |-> FALSE]

Observed(r) ==
    IF \/ r.kind = "rename" /\ r.pass = 1 /\ r.before_lookups /\ r.selected
       \/ r.kind = "drop" /\ r.awaited
    THEN r
    ELSE OtherMutation

MutationFrame ==
    /\ mutations_left' = mutations_left - 1
    /\ views' = views \cup {View(databases', tables')}
    /\ first_mutation' = IF first_mutation # << >> THEN first_mutation
                         ELSE << Observed(MutationRecord) >>
    /\ UNCHANGED << memberVars, argVars, controlVars, table_locks, deadline_passed,
                    last_pass, observerVars, hostVars >>

RenameTable ==
    /\ MayMutate
    /\ \E s \in TableObjs, o \in AttachedDbs, t \in TableNames :
        /\ tables[s].db \in AttachedDbs
        /\ table_locks[s] = 0
        /\ NameFree(o, t)
        /\ tables' = [tables EXCEPT ![s] = [db |-> o, name |-> t]]
    /\ UNCHANGED databases
    /\ MutationFrame

DropTable ==
    /\ MayMutate
    /\ \E s \in TableObjs :
        /\ TableExists(s)
        /\ table_locks[s] = 0
        /\ tables' = [tables EXCEPT ![s] = DroppedTable]
    /\ UNCHANGED databases
    /\ MutationFrame

CreateTable ==
    /\ MayMutate
    /\ \E s \in TableObjs \ ReferencedStorages, o \in AttachedDbs, t \in TableNames :
        /\ ~TableExists(s)
        /\ NameFree(o, t)
        /\ tables' = [tables EXCEPT ![s] = [db |-> o, name |-> t]]
    /\ UNCHANGED databases
    /\ MutationFrame

RenameDatabase ==
    /\ MayMutate
    /\ \E n \in DbNames, m \in DbNames :
        /\ databases[n] # Null
        /\ databases[m] = Null
        /\ databases' = [databases EXCEPT ![n] = Null, ![m] = databases[n]]
    /\ UNCHANGED tables
    /\ MutationFrame

DropDatabase ==
    /\ MayMutate
    /\ \E n \in DbNames :
        /\ databases[n] # Null
        /\ \A s \in TableObjs : tables[s].db = databases[n] => table_locks[s] = 0
        /\ databases' = [databases EXCEPT ![n] = Null]
        /\ tables' = [s \in TableObjs |->
                         IF tables[s].db = databases[n] THEN DroppedTable ELSE tables[s]]
    /\ MutationFrame

CreateDatabase ==
    /\ MayMutate
    /\ \E n \in DbNames, o \in DbObjs \ (AttachedDbs \cup ReferencedDatabases) :
        /\ databases[n] = Null
        /\ databases' = [databases EXCEPT ![n] = o]
    /\ UNCHANGED tables
    /\ MutationFrame

(***************************************************************************)
(* Several hosts, each running getBackupEntries once, and the coordination *)
(* service between them.  The work between two setStage calls is a pair of *)
(* steps (begun, completed) per statement of Program.                      *)
(***************************************************************************)
Hosts == {"h1", "h2"}

WorkLabels == {"collect", "dbDefs", "tblDefs", "tablesData", "postTasks"}

HostFrame == UNCHANGED << memberVars, argVars, controlVars, envVars, observerVars >>

\* lines 78-85
HostGetBackupEntries(h) ==
    /\ hpc[h] = "idle"
    /\ hpc' = [hpc EXCEPT ![h] = IF hstage[h] # kPreparing THEN "catch" ELSE Program[1]]
    /\ UNCHANGED << hstage, hin_sync, reported, herror, hstarted, hfinished >>
    /\ HostFrame

\* setStage, lines 130 and 136-140: the stage is reported to the coordination
HostSetStage(h) ==
    /\ hpc[h] \in SetLabels
    /\ ~hin_sync[h]
    /\ hstage' = [hstage EXCEPT ![h] = StageArg(hpc[h])]
    /\ reported' = [reported EXCEPT ![h] = @ \cup {StageArg(hpc[h])}]
    /\ hin_sync' = [hin_sync EXCEPT ![h] = TRUE]
    /\ UNCHANGED << hpc, herror, hstarted, hfinished >>
    /\ HostFrame

\* IBackupCoordination::syncStage returns once every host of all_hosts has
\* reported the stage
AllReported(stage) == \A g \in Hosts : stage \in reported[g]

HostSyncStageReturns(h) ==
    /\ hpc[h] \in SetLabels
    /\ hin_sync[h]
    /\ AllReported(hstage[h])
    /\ hin_sync' = [hin_sync EXCEPT ![h] = FALSE]
    /\ hpc' = [hpc EXCEPT ![h] = NextLabel(hpc[h])]
    /\ UNCHANGED << hstage, reported, herror, hstarted, hfinished >>
    /\ HostFrame

\* IBackupCoordination::syncStage throws: the timeout elapsed before every host
\* reported the stage, or a host reported an error
HostSyncStageFails(h) ==
    /\ hpc[h] \in SetLabels
    /\ hin_sync[h]
    /\ ~AllReported(hstage[h]) \/ herror # {}
    /\ hin_sync' = [hin_sync EXCEPT ![h] = FALSE]
    /\ hpc' = [hpc EXCEPT ![h] = "catch"]
    /\ UNCHANGED << hstage, reported, herror, hstarted, hfinished >>
    /\ HostFrame

\* a statement of lines 89-103 begins
HostWorkBegins(h) ==
    /\ hpc[h] \in WorkLabels
    /\ hpc[h] \notin hstarted[h]
    /\ hstarted' = [hstarted EXCEPT ![h] = @ \cup {hpc[h]}]
    /\ UNCHANGED << hstage, hpc, hin_sync, reported, herror, hfinished >>
    /\ HostFrame

\* ... and returns
HostWorkEnds(h) ==
    /\ hpc[h] \in WorkLabels
    /\ hpc[h] \in hstarted[h]
    /\ hfinished' = [hfinished EXCEPT ![h] = @ \cup {hpc[h]}]
    /\ hpc' = [hpc EXCEPT ![h] = NextLabel(hpc[h])]
    /\ UNCHANGED << hstage, hin_sync, reported, herror, hstarted >>
    /\ HostFrame

\* ... or throws
HostWorkThrows(h) ==
    /\ hpc[h] \in WorkLabels
    /\ hpc[h] \in hstarted[h]
    /\ hpc' = [hpc EXCEPT ![h] = "catch"]
    /\ UNCHANGED << hstage, hin_sync, reported, herror, hstarted, hfinished >>
    /\ HostFrame

\* the catch block, lines 110-120
HostCatchAndRethrow(h) ==
    /\ hpc[h] = "catch"
    /\ hstage' = [hstage EXCEPT ![h] = StageAfterCatch(hstage[h])]
    /\ herror' = herror \cup {h}
    /\ hpc' = [hpc EXCEPT ![h] = "failed"]
    /\ UNCHANGED << hin_sync, reported, hstarted, hfinished >>
    /\ HostFrame

\* line 108
HostReturnEntries(h) ==
    /\ hpc[h] = "return"
    /\ hpc' = [hpc EXCEPT ![h] = "done"]
    /\ UNCHANGED << hstage, hin_sync, reported, herror, hstarted, hfinished >>
    /\ HostFrame

(***************************************************************************)
(* Queries and catalogs the exploration starts from.                       *)
(***************************************************************************)
Element(type, dbname, tname, partitions, except_tables, except_databases) ==
    [type |-> type, database_name |-> dbname, table_name |-> tname,
     partitions |-> partitions, except_tables |-> except_tables,
     except_databases |-> except_databases]

ElTable(dbname, tname, partitions) == Element("TABLE", dbname, tname, partitions, {}, {})
ElTemporaryTable(tname) == Element("TEMPORARY_TABLE", NoDbName, tname, << >>, {}, {})
ElDatabase(dbname, except_tables) == Element("DATABASE", dbname, "", << >>, except_tables, {})
ElAll(except_databases) == Element("ALL", "", "", << >>, {}, except_databases)

Queries ==
    { << ElTable("d1", "a", << <<"p1">> >>) >>,
      << ElDatabase("d1", {}) >>,
      << ElAll({}) >>,
      << ElDatabase("d1", {<<"d1", "b">>}), ElTable("d1", "a", << <<"p1">> >>),
         ElTable("d1", "a", << <<"p2">> >>) >>,
      << ElTemporaryTable("a"), ElTable("d1", "a", << >>) >>,
      << ElTable("d1", "a", << >>), ElDatabase("d1", {}) >> }

Table(o, t) == [db |-> o, name |-> t]

Catalogs ==
    { [databases |-> [n \in DbNames |-> IF n = "d1" THEN "o1" ELSE Null],
       tables |-> [s \in TableObjs |-> IF s = "s1" THEN Table("o1", "a") ELSE Table("o1", "b")]],
      [databases |-> [n \in DbNames |-> IF n = "d1" THEN "o1" ELSE "o2"],
       tables |-> [s \in TableObjs |-> IF s = "s1" THEN Table("o1", "a") ELSE Table(TempDb, "a")]],
      [databases |-> [n \in DbNames |-> IF n = "d1" THEN "o1" ELSE Null],
       tables |-> [s \in TableObjs |-> IF s = "s1" THEN Table("o1", "a") ELSE DroppedTable]] }

\* the collector right after its constructor, lines 56-69
InitCollector ==
    /\ current_stage = kPreparing
    /\ root_path_in_backup = << >>
    /\ backup_entries = << >>
    /\ post_collecting_tasks = << >>
    /\ database_infos = << >>
    /\ table_infos = << >>
    /\ consistent = FALSE
    /\ previous_database_names = << >>
    /\ previous_table_names = << >>
    /\ pc = "idle"
    /\ in_sync = FALSE
    /\ exc = "none"
    /\ pass = 0
    /\ scan_pc = "begin"
    /\ elem = 1
    /\ all_iter = << >>
    /\ db_frame = << >>
    /\ tbl_frame = << >>
    /\ data_todo = << >>
    /\ cur_task = 0
    /\ table_locks = NoLocks
    /\ deadline_passed = FALSE
    /\ calls = 0
    /\ result = "none"
    /\ raised = "none"
    /\ returned = << >>
    /\ thrown = "none"
    /\ failures = 0
    /\ error_broadcasts = 0
    /\ broadcast_ok = TRUE
    /\ sync_calls = [s \in Stages |-> 0]
    /\ call_worked = FALSE
    /\ add_calls = 0
    /\ last_add = "none"
    /\ sealed = FALSE
    /\ enqueued = << >>
    /\ ran = << >>

InitHostsIdle ==
    /\ hstage = [h \in Hosts |-> kPreparing]
    /\ hpc = [h \in Hosts |-> "idle"]
    /\ hin_sync = [h \in Hosts |-> FALSE]
    /\ reported = [h \in Hosts |-> {}]
    /\ herror = {}
    /\ hstarted = [h \in Hosts |-> {}]
    /\ hfinished = [h \in Hosts |-> {}]

Init ==
    /\ InitCollector
    /\ InitHostsIdle
    /\ backup_query_elements \in Queries
    /\ \E c \in Catalogs : databases = c.databases /\ tables = c.tables
    /\ \E b \in BOOLEAN : structure_only = b /\ use_timeout = b
                          /\ host_id = IF b THEN "host" ELSE ""
    /\ mutations_left = 0
    /\ views = {View(databases, tables)}
    /\ last_pass = << >>
    /\ first_mutation = << >>

InitScan ==
    /\ InitCollector
    /\ InitHostsIdle
    /\ backup_query_elements \in Queries
    /\ \E c \in Catalogs : databases = c.databases /\ tables = c.tables
    /\ structure_only = FALSE
    /\ use_timeout \in BOOLEAN
    /\ host_id = ""
    /\ mutations_left = MaxMutations
    /\ views = {View(databases, tables)}
    /\ last_pass = << >>
    /\ first_mutation = << >>

InitHosts ==
    /\ InitCollector
    /\ InitHostsIdle
    /\ backup_query_elements = << ElAll({}) >>
    /\ databases = [n \in DbNames |-> Null]
    /\ tables = [s \in TableObjs |-> DroppedTable]
    /\ structure_only = FALSE
    /\ use_timeout = TRUE
    /\ host_id = "h1"
    /\ mutations_left = 0
    /\ views = {View(databases, tables)}
    /\ last_pass = << >>
    /\ first_mutation = << >>

\* the steps of getBackupEntries
CollectorSteps ==
    \/ GetBackupEntries
    \/ SetStage
    \/ SyncStageReturns
    \/ SyncStageFails
    \/ CatchAndRethrow
    \/ ReturnEntries
    \/ ScanBeginPass
    \/ ScanElementTable
    \/ ScanElementDatabase
    \/ ScanElementAll
    \/ CollectAllDatabasesInfoNext
    \/ CollectDatabaseInfoCreate
    \/ CollectDatabaseInfoNextTable
    \/ CollectTableInfoLock
    \/ ScanEndPass
    \/ DeadlinePasses
    \/ MakeBackupEntriesForDatabasesDefs
    \/ MakeBackupEntriesForTablesDefs
    \/ MakeBackupEntriesForTablesDataBegin
    \/ BackupDataReturns
    \/ BackupDataThrows
    \/ MakeBackupEntriesForTablesDataEnd
    \/ RunPostCollectingTasksEnd

\* the add* API and the tasks it queues
CollaboratorCalls ==
    \/ AddBackupEntry
    \/ AddBackupEntries
    \/ AddPostCollectingTask
    \/ RunPostCollectingTask
    \/ PostTaskReturns
    \/ PostTaskThrows

\* other activity on the catalog
CatalogActivity ==
    \/ RenameTable
    \/ DropTable
    \/ CreateTable
    \/ RenameDatabase
    \/ DropDatabase
    \/ CreateDatabase

Next == CollectorSteps \/ CollaboratorCalls

NextScan == CollectorSteps \/ CatalogActivity

NextHosts ==
    \E h \in Hosts :
        \/ HostGetBackupEntries(h)
        \/ HostSetStage(h)
        \/ HostSyncStageReturns(h)
        \/ HostSyncStageFails(h)
        \/ HostWorkBegins(h)
        \/ HostWorkEnds(h)
        \/ HostWorkThrows(h)
        \/ HostCatchAndRethrow(h)
        \/ HostReturnEntries(h)

Spec == Init /\ [][Next]_vars

SpecScan == InitScan /\ [][NextScan]_vars

SpecHosts == InitHosts /\ [][NextHosts]_vars

\* the thread that runs getBackupEntries keeps running: a pending step of it
\* (a catalog call, a syncStage that returns or times out) is eventually taken
SpecLive == Init /\ [][Next]_vars /\ WF_vars(CollectorSteps)

SpecScanLive == InitScan /\ [][NextScan]_vars /\ WF_vars(CollectorSteps)

(***************************************************************************)
(* C1.  current_stage changes only from a non-error stage to the next      *)
(* stage of the order Preparing, FindingTables, ExtractingDataFromTables,  *)
(* RunningPostTasks, WritingBackup, or to Error; syncStage is called for a *)
(* stage exactly when the stage is entered, once.                          *)
(***************************************************************************)
StageOrder ==
    << kPreparing, kFindingTables, kExtractingDataFromTables, kRunningPostTasks,
       kWritingBackup >>

IsNextStage(from, to) ==
    \E i \in 1..(Len(StageOrder) - 1) : StageOrder[i] = from /\ StageOrder[i + 1] = to

C1_StagesInOrder ==
    [][ /\ current_stage' # current_stage =>
            /\ current_stage # kError
            /\ current_stage' = kError \/ IsNextStage(current_stage, current_stage')
            /\ IF current_stage' = kError
               THEN sync_calls' = sync_calls
               ELSE /\ sync_calls[current_stage'] = 0
                    /\ sync_calls' = [sync_calls EXCEPT ![current_stage'] = 1]
        /\ current_stage' = current_stage => sync_calls' = sync_calls ]_vars

C1_Witness ==
    /\ current_stage = kWritingBackup
    /\ \A i \in 2..Len(StageOrder) : sync_calls[StageOrder[i]] = 1

(***************************************************************************)
(* C2.  Once current_stage is WritingBackup or Error it never changes      *)
(* again (so Error is entered from a non-terminal stage only).             *)
(***************************************************************************)
C2_TerminalStagesStay ==
    [][ (current_stage \in {kWritingBackup, kError}) => current_stage' = current_stage ]_vars

(***************************************************************************)
(* C3.  No host begins a statement that follows the setStage call of a     *)
(* stage before every host has completed all the statements of the stages  *)
(* before it (tablesData begins only after every host completed collect,   *)
(* dbDefs and tblDefs).                                                    *)
(***************************************************************************)
WorkStage(w) ==
    CASE w \in {"collect", "dbDefs", "tblDefs"} -> 1
      [] w = "tablesData" -> 2
      [] w = "postTasks" -> 3

C3_StagesAreBarriers ==
    \A h \in Hosts : \A w \in hstarted[h] :
        \A g \in Hosts : \A v \in WorkLabels :
            WorkStage(v) < WorkStage(w) => v \in hfinished[g]

C3_Witness ==
    /\ "tablesData" \in hstarted["h1"]
    /\ "tablesData" \notin hstarted["h2"]
    /\ "postTasks" \notin hstarted["h1"]

(***************************************************************************)
(* C4.  After current_stage has been WritingBackup, every call of          *)
(* addBackupEntry, addBackupEntries or addPostCollectingTask is rejected.  *)
(***************************************************************************)
C4_NoAddAfterSealing ==
    [][ sealed /\ add_calls' # add_calls => last_add' = "LOGICAL_ERROR" ]_vars

(***************************************************************************)
(* C5.  An add call made while current_stage is WritingBackup fails with   *)
(* LOGICAL_ERROR and changes neither backup_entries nor the task queue nor *)
(* current_stage.                                                          *)
(***************************************************************************)
C5_AddWhileWritingRejected ==
    [][ current_stage = kWritingBackup /\ add_calls' # add_calls =>
            /\ last_add' = "LOGICAL_ERROR"
            /\ backup_entries' = backup_entries
            /\ post_collecting_tasks' = post_collecting_tasks
            /\ current_stage' = current_stage ]_vars

C5_Witness ==
    /\ current_stage = kWritingBackup
    /\ last_add = "LOGICAL_ERROR"
    /\ add_calls = MaxAdds

(***************************************************************************)
(* C6.  A call of getBackupEntries after the first fails with              *)
(* LOGICAL_ERROR and runs no scan pass, entry emission, data export or     *)
(* post task.                                                              *)
(***************************************************************************)
C6_SecondCallRejected ==
    calls >= 2 =>
        /\ ~call_worked
        /\ pc \in {"catch", "idle"}
        /\ pc = "catch" => exc = "LOGICAL_ERROR"
        /\ pc = "idle" => result = "failed" /\ raised = "LOGICAL_ERROR"

C6_Witness ==
    /\ calls = 2
    /\ pc = "idle"
    /\ sealed
    /\ raised = "LOGICAL_ERROR"

(***************************************************************************)
(* C7.  A call in which a step failed ends with current_stage = Error,     *)
(* exactly one syncStageError call for that failure, the exception first   *)
(* thrown reaching the caller also when syncStageError itself failed, and  *)
(* no entries returned.                                                    *)
(***************************************************************************)
C7_FailureHandling ==
    /\ error_broadcasts = IF pc = "catch" THEN failures - 1 ELSE failures
    /\ pc = "idle" /\ result = "failed" =>
           /\ current_stage = kError
           /\ raised = thrown
           /\ raised # "none"
           /\ returned = << >>

C7_Witness ==
    /\ pc = "idle"
    /\ result = "failed"
    /\ raised = "TASK_FAILED"
    /\ ~broadcast_ok

(***************************************************************************)
(* C8.  The tasks started are, in order, a prefix of the tasks pushed, the *)
(* queue holds the rest, and in WritingBackup the queue is empty and every *)
(* task pushed has been started.                                           *)
(***************************************************************************)
C8_TasksInOrder ==
    /\ Len(ran) <= Len(enqueued)
    /\ \A i \in 1..Len(ran) : ran[i] = enqueued[i].id
    /\ Len(post_collecting_tasks) = Len(enqueued) - Len(ran)
    /\ \A i \in 1..Len(post_collecting_tasks) :
           post_collecting_tasks[i] = enqueued[Len(ran) + i].id
    /\ current_stage = kWritingBackup =>
           post_collecting_tasks = << >> /\ Len(ran) = Len(enqueued)

C8_Witness ==
    /\ current_stage = kWritingBackup
    /\ Len(ran) = 2
    /\ enqueued[2].by = 1

(***************************************************************************)
(* C9.  Whenever collectDatabasesAndTablesInfo returns normally, the       *)
(* collected database names and table keys are what the query selected in  *)
(* the catalog at some single instant of the scan.                         *)
(***************************************************************************)
Collected == [databases |-> DOMAIN database_infos, tables |-> DOMAIN table_infos]

C9_ResultIsSnapshot == scan_pc = "done" => Collected \in views

(***************************************************************************)
(* C10.  When the table of a TABLE or TEMPORARY_TABLE element or the       *)
(* database of a DATABASE element is absent at its lookup, in whatever     *)
(* pass, the scan throws at once, no further pass is started and the call  *)
(* ends in the Error stage.                                                *)
(***************************************************************************)
RequiredEntityAbsent ==
    LET e == backup_query_elements[elem]
    IN  CASE e.type = "TABLE" -> ResolveTable(e.database_name, e.table_name, FALSE) = Null
          [] e.type = "TEMPORARY_TABLE" -> ResolveTable(NoDbName, e.table_name, TRUE) = Null
          [] e.type = "DATABASE" -> databases[e.database_name] = Null
          [] e.type = "ALL" -> FALSE

NotFound == {"UNKNOWN_TABLE", "UNKNOWN_DATABASE"}

C10_RequiredMissingFails ==
    /\ [][ ElementReady /\ elem' # elem /\ RequiredEntityAbsent =>
               pc' = "catch" /\ exc' \in NotFound ]_vars
    /\ [][ (thrown \in NotFound) /\ calls = 1 => pass' = pass /\ scan_pc' = scan_pc ]_vars
    /\ [](thrown \in NotFound /\ pc = "idle" => current_stage = kError /\ result = "failed")

C10_Witness ==
    /\ pass >= 1
    /\ thrown = "UNKNOWN_TABLE"
    /\ pc = "idle"
    /\ current_stage = kError

(***************************************************************************)
(* C11.  A rename or drop observed during the scan is never surfaced to    *)
(* the caller of getBackupEntries as a failure: the pass in which it is    *)
(* observed is rejected and another pass is run.                           *)
(*                                                                         *)
(* C11_RejectedPassRetries is the statement as it stands: every pass that  *)
(* ends rejected is followed by another pass, and no exception.            *)
(* C11_InconsistencyRetriesUntilDeadline is what the code does: a lookup   *)
(* that is not required raises nothing, whatever it finds, and a pass that *)
(* ends rejected is followed by another pass unless the deadline is looked *)
(* at (lines 208-216) and has passed; then, and only then, the scan throws *)
(* CANNOT_COLLECT_OBJECTS_FOR_BACKUP.                                      *)
(***************************************************************************)
EndOfPass ==
    /\ pc = "collect"
    /\ scan_pc = "elements"
    /\ NoFrames
    /\ elem > Len(backup_query_elements)

\* the step from the last element to the `while (!consistent)` test
PassEnds == EndOfPass /\ UNCHANGED << deadline_passed, mutations_left >>

AnotherPassRuns ==
    /\ exc' = "none"
    /\ pc' = "collect"
    /\ scan_pc' = "begin"
    /\ pass' = pass + 1

\* a lookup through a DATABASE or ALL element is about to be made
InNonRequiredLookup ==
    /\ pc = "collect"
    /\ scan_pc = "elements"
    /\ \/ tbl_frame # << >> /\ ~tbl_frame[1].throw_if_not_found
       \/ tbl_frame = << >> /\ db_frame # << >> /\ db_frame[1].phase = "iter"
       \/ tbl_frame = << >> /\ db_frame # << >> /\ ~db_frame[1].throw_if_not_found
       \/ tbl_frame = << >> /\ db_frame = << >> /\ all_iter # << >>

DeadlineApplies == pass >= FirstTimedPass /\ use_timeout /\ deadline_passed

KeyOfElement(e) ==
    IF e.type = "TEMPORARY_TABLE"
    THEN TableKey(NoDbName, e.table_name, TRUE)
    ELSE TableKey(e.database_name, e.table_name, FALSE)

NamesKey(e, key) ==
    /\ e.type \in {"TABLE", "TEMPORARY_TABLE"}
    /\ KeyOfElement(e) = key

\* the selectors of the first n elements that name `key`, in element order
RECURSIVE SelectorsUpTo(_, _)
SelectorsUpTo(key, n) ==
    IF n = 0 THEN << >>
    ELSE LET e == backup_query_elements[n]
         IN  SelectorsUpTo(key, n - 1)
                 \o (IF NamesKey(e, key) /\ e.partitions # << >>
                     THEN e.partitions[1] ELSE << >>)

SomeSelector(key) ==
    \E i \in DOMAIN backup_query_elements :
        NamesKey(backup_query_elements[i], key) /\ backup_query_elements[i].partitions # << >>

RequestedPartitions(key) ==
    IF SomeSelector(key)
    THEN << SelectorsUpTo(key, Len(backup_query_elements)) >>
    ELSE << >>

C12_PartitionsAreUnion ==
    scan_pc = "done" =>
        \A key \in DOMAIN table_infos :
            table_infos[key].partitions = RequestedPartitions(key)

\* d1.a named with p1, reached through DATABASE d1, named with p2; accepted
\* in the third pass
C12_Witness ==
    /\ scan_pc = "done"
    /\ pass >= 3
    /\ TableKey("d1", "a", FALSE) \in DOMAIN table_infos
    /\ table_infos[TableKey("d1", "a", FALSE)].partitions = << <<"p1", "p2">> >>
    /\ "d1" \in DOMAIN database_infos

(***************************************************************************)
(* C13.  With backup_settings.structure_only set, getBackupEntries calls   *)
(* backupData for no table: makeBackupEntriesForTablesData adds no entry,  *)
(* the entries the call makes itself are the metadata entries of the       *)
(* collected databases and tables, and the call still goes through the     *)
(* stages ExtractingDataFromTables and RunningPostTasks.                   *)
(***************************************************************************)
\* storage->backupData is being called, line 497
InBackupData == pc = "tablesData" /\ data_todo # << >> /\ data_todo[1] # << >>

IsMetadata(e) == e.kind = "metadata"

CollectedMetadata ==
    LET names == SortedNames(DOMAIN database_infos)
        keys == SortedKeys(DOMAIN table_infos)
    IN  [i \in 1..Len(names) |-> MetadataEntry(DatabaseMetadataPath(names[i]))]
            \o [i \in 1..Len(keys) |-> MetadataEntry(TableMetadataPath(keys[i]))]

C13_StructureOnlyExportsNoData ==
    /\ [](structure_only => ~InBackupData)
    /\ [][ structure_only /\ pc = "tablesData" => backup_entries' = backup_entries ]_vars
    /\ [](structure_only /\ result = "returned" =>
              /\ SelectSeq(returned, IsMetadata) = CollectedMetadata
              /\ sync_calls[kExtractingDataFromTables] >= 1
              /\ sync_calls[kRunningPostTasks] >= 1)

C13_Witness ==
    /\ structure_only
    /\ result = "returned"
    /\ Len(SortedKeys(DOMAIN table_infos)) = 2
    /\ Len(SelectSeq(returned, IsMetadata)) = 3

(***************************************************************************)
(* C14.  The root path calculateRootPathInBackup computes is the empty     *)
(* string for a host that is no shard/replica of a clustered backup and    *)
(* `shards/<shard>/replicas/<replica>/` otherwise, and every metadata path *)
(* of the result starts with it.  Paths are compared as texts: sequences   *)
(* of names and "/" separators.                                            *)
(***************************************************************************)
RECURSIVE Joined(_)
Joined(names) ==
    IF names = << >> THEN << >>
    ELSE IF Len(names) = 1 THEN << names[1] >>
    ELSE << names[1], "/" >> \o Joined(Tail(names))

\* String{path}: the root directory, then the names separated by "/"
PathText(path) ==
    IF path = << >> THEN << >>
    ELSE IF path[1] = "/" THEN <<"/">> \o Joined(Tail(path))
    ELSE Joined(path)

DocumentedRootPath ==
    IF host_id = "" THEN << >>
    ELSE <<"shards", "/", ShardNumText, "/", "replicas", "/", ReplicaNumText, "/">>

StartsWith(text, prefix) ==
    /\ Len(text) >= Len(prefix)
    /\ SubSeq(text, 1, Len(prefix)) = prefix

C14_RootPathAsDocumented ==
    calls >= 1 =>
        /\ PathText(root_path_in_backup) = DocumentedRootPath
        /\ \A i \in DOMAIN backup_entries :
               IsMetadata(backup_entries[i]) =>
                   StartsWith(PathText(backup_entries[i].path), DocumentedRootPath)

(***************************************************************************)
(* C15.  On a catalog that is not mutated during the scan and holds every  *)
(* table and database the query names, collectDatabasesAndTablesInfo       *)
(* returns after exactly two passes, whatever the order in which databases *)
(* and tables are enumerated: the first pass is rejected, the second is    *)
(* accepted.                                                               *)
(***************************************************************************)
NamedEntityAbsent(e) ==
    CASE e.type = "TABLE" -> ResolveTable(e.database_name, e.table_name, FALSE) = Null
      [] e.type = "TEMPORARY_TABLE" -> ResolveTable(NoDbName, e.table_name, TRUE) = Null
      [] e.type = "DATABASE" -> databases[e.database_name] = Null
      [] e.type = "ALL" -> FALSE

AllNamedExist ==
    \A i \in DOMAIN backup_query_elements : ~NamedEntityAbsent(backup_query_elements[i])

C15_StaticCatalogTwoPasses ==
    /\ [][ PassEnds /\ AllNamedExist =>
              /\ consistent' <=> (pass = 1)
              /\ pass' = pass + 1
              /\ exc' = "none" ]_vars
    /\ [](AllNamedExist /\ scan_pc = "done" => pass = 2)
    /\ (pc = "collect" /\ AllNamedExist) ~> (scan_pc = "done" /\ pass = 2)

\* DATABASE d1 or ALL on a catalog with two tables in d1
C15_Witness ==
    /\ AllNamedExist
    /\ scan_pc = "done"
    /\ pass = 2
    /\ Cardinality(DOMAIN table_infos) = 2
    /\ previous_table_names = << DOMAIN table_infos >>

(***************************************************************************)
(* C16.  A pass is accepted only if its own cross-checks passed and its    *)
(* database names and table keys are the sets the immediately preceding    *)
(* pass collected: the first pass is never accepted, and an accepted pass  *)
(* directly follows a pass that yielded the same two sets.                 *)
(***************************************************************************)
C16_AcceptedMatchesPrecedingPass ==
    [][ PassEnds /\ consistent' =>
            /\ consistent
            /\ DatabasesAgree
            /\ pass >= 1
            /\ last_pass = << Collected >> ]_vars

(***************************************************************************)
(* C17.  A table the query selects is renamed once, after the first pass   *)
(* ended and before the second pass made a lookup, and the catalog is      *)
(* otherwise unchanged.  Then the second pass is not accepted, a further   *)
(* pass is run, and the accepted result holds the table under its new key  *)
(* only, never under its old key.                                          *)
(*                                                                         *)
(* C17_RenameBetweenPasses is the statement for every selected table;      *)
(* C17_RenameOfEnumeratedTable is the statement for a table that no TABLE  *)
(* element names (it is reached through a DATABASE or ALL element).        *)
(***************************************************************************)
RenamedOnceBetweenPasses ==
    /\ first_mutation # << >>
    /\ mutations_left = MaxMutations - 1
    /\ first_mutation[1].kind = "rename"
    /\ first_mutation[1].pass = 1
    /\ first_mutation[1].before_lookups
    /\ first_mutation[1].selected

NamedByElement(key) ==
    \E i \in DOMAIN backup_query_elements : NamesKey(backup_query_elements[i], key)

OnlyUnderNewKey ==
    /\ pass >= 3
    /\ first_mutation[1].from \notin DOMAIN table_infos
    /\ \A key \in DOMAIN table_infos :
           table_infos[key].storage = first_mutation[1].storage =>
               key = first_mutation[1].to
    /\ first_mutation[1].selected_after => first_mutation[1].to \in DOMAIN table_infos

C17_RenameBetweenPasses ==
    /\ [](RenamedOnceBetweenPasses /\ pass = 1 => pc = "collect" /\ exc = "none")
    /\ [][ RenamedOnceBetweenPasses /\ PassEnds /\ pass = 1 =>
               ~consistent' /\ AnotherPassRuns ]_vars
    /\ [](RenamedOnceBetweenPasses /\ scan_pc = "done" => OnlyUnderNewKey)

C17_RenameOfEnumeratedTable ==
    /\ [](RenamedOnceBetweenPasses /\ ~NamedByElement(first_mutation[1].from) /\ pass = 1 =>
              pc = "collect" /\ exc = "none")
    /\ [][ /\ RenamedOnceBetweenPasses
           /\ ~NamedByElement(first_mutation[1].from)
           /\ PassEnds
           /\ pass = 1
           => ~consistent' /\ AnotherPassRuns ]_vars
    /\ [](/\ RenamedOnceBetweenPasses
          /\ ~NamedByElement(first_mutation[1].from)
          /\ scan_pc = "done"
          => OnlyUnderNewKey)

C17_Witness ==
    /\ RenamedOnceBetweenPasses
    /\ ~NamedByElement(first_mutation[1].from)
    /\ scan_pc = "done"
    /\ pass = 3
    /\ first_mutation[1].to \in DOMAIN table_infos
    /\ first_mutation[1].from \notin DOMAIN table_infos

(***************************************************************************)
(* C18.  With a deadline configured, a pass that ends rejected when the    *)
(* time elapsed since the start of the scan exceeds the timeout makes the  *)
(* scan throw CANNOT_COLLECT_OBJECTS_FOR_BACKUP instead of starting        *)
(* another pass; with no deadline configured, the scan never throws it and *)
(* starts another pass after every rejected pass.                          *)
(***************************************************************************)
ConvergenceFailure ==
    /\ exc' = "CANNOT_COLLECT_OBJECTS_FOR_BACKUP"
    /\ pc' = "catch"
    /\ pass' = pass
    /\ scan_pc' = scan_pc

C18_DeadlineEndsScan ==
    /\ [][ PassEnds /\ ~consistent' /\ use_timeout /\ deadline_passed =>
               ConvergenceFailure ]_vars
    /\ [][ PassEnds /\ ~consistent' /\ ~use_timeout => AnotherPassRuns ]_vars
    /\ [](~use_timeout => thrown # "CANNOT_COLLECT_OBJECTS_FOR_BACKUP")

(***************************************************************************)
(* C19.  A table reached through a DATABASE or ALL element is dropped      *)
(* after the enumeration of the database returned its name and before its  *)
(* definition is retrieved.  Then the pass raises no failure and records   *)
(* no TableInfo for the table; if the catalog is not mutated any further,  *)
(* the scan eventually accepts a pass, and the accepted result does not    *)
(* contain the table.                                                      *)
(*                                                                         *)
(* C19_DropAfterEnumeration is the statement for every such table;         *)
(* C19_DropOfUnnamedTable is the statement for a table that no TABLE       *)
(* element names as well.                                                  *)
(***************************************************************************)
DroppedAfterEnumeration ==
    /\ first_mutation # << >>
    /\ mutations_left = MaxMutations - 1
    /\ first_mutation[1].kind = "drop"
    /\ first_mutation[1].awaited

NotRecorded(s) == \A key \in DOMAIN table_infos : table_infos[key].storage # s

PreviousResult == IF last_pass = << >> THEN {} ELSE last_pass[1].tables

\* a table reached through a DATABASE or ALL element was resolved and then
\* dropped: lockForShare is about to throw TABLE_IS_DROPPED, in a pass that
\* is consistent so far
AwaitedTableIsGone ==
    /\ pc = "collect"
    /\ scan_pc = "elements"
    /\ consistent
    /\ tbl_frame # << >>
    /\ ~tbl_frame[1].throw_if_not_found
    /\ ~TableExists(tbl_frame[1].storage)

\* the miss is tolerated exactly when the previous pass had not the key
MissToleratedIffAbsentBefore ==
    [][ AwaitedTableIsGone /\ tbl_frame' = << >> =>
            (consistent' <=> tbl_frame[1].key \notin PreviousResult) ]_vars

\* pass number p + 1, in which a key of the previous result is found
\* missing, is never the accepted one
MissedPassIsRejected ==
    \A p \in 0..MaxPasses :
        [](AwaitedTableIsGone /\ pass = p /\ tbl_frame[1].key \in PreviousResult =>
               [](scan_pc = "done" => pass # p + 1))

C20_MissJudgedByPreviousPass ==
    /\ MissToleratedIffAbsentBefore
    /\ MissedPassIsRejected

(***************************************************************************)
(* C21.  Read locks follow the passes: every TableInfo of table_infos      *)
(* holds a read lock on its table; the locks of a discarded pass are all   *)
(* released before the next pass acquires one; a lock acquired for a table *)
(* that is then not recorded is released when collectTableInfo returns;    *)
(* and in the accepted result every collected table is still locked while  *)
(* the entries are emitted and the data is exported.                       *)
(***************************************************************************)
EntriesOf(s) == {k \in DOMAIN table_infos : table_infos[k].storage = s}

\* one lock per entry, and no lock without an entry
LocksMatchEntries ==
    \A s \in TableObjs : table_locks[s] = Cardinality(EntriesOf(s))

SomeLockAcquired == \E s \in TableObjs : table_locks'[s] > table_locks[s]

\* a pass begins with no lock held, and locks are acquired inside a pass only
DiscardedLocksReleasedFirst ==
    /\ [][ scan_pc = "begin" /\ scan_pc' = "elements" => table_locks' = NoLocks ]_vars
    /\ [][ SomeLockAcquired =>
               /\ scan_pc = "elements"
               /\ \A s \in HeldStorages : EntriesOf(s) # {} ]_vars

\* collectTableInfo returns from line 272, 292 or 303 without an entry for its key
ReturnsUnrecorded ==
    /\ tbl_frame # << >>
    /\ tbl_frame' = << >>
    /\ table_infos' = table_infos
    /\ ~consistent' \/ tbl_frame[1].key \notin DOMAIN table_infos

UnrecordedLockReleased ==
    [][ ReturnsUnrecorded => table_locks' = table_locks ]_vars

EmittingAccepted ==
    /\ scan_pc = "done"
    /\ pc \in {"dbDefs", "tblDefs", "setExtracting", "tablesData"}

AcceptedTablesLocked ==
    EmittingAccepted =>
        \A k \in DOMAIN table_infos :
            /\ table_locks[table_infos[k].storage] > 0
            /\ TableExists(table_infos[k].storage)

C21_LocksFollowPasses ==
    /\ [](LocksMatchEntries /\ AcceptedTablesLocked)
    /\ DiscardedLocksReleasedFirst
    /\ UnrecordedLockReleased

\* the data of a locked table is being exported from a result accepted
\* after a pass was discarded on a mutation of the catalog
C21_Witness ==
    /\ InBackupData
    /\ EmittingAccepted
    /\ pass >= 3
    /\ first_mutation # << >>
    /\ table_infos # << >>
    /\ LocksMatchEntries
    /\ HeldStorages # {}

(***************************************************************************)
(* C22.  In every accepted scan result, each TableInfo whose database name *)
(* also has a DatabaseInfo entry references the same database object as    *)
(* that DatabaseInfo; a pass in which the database reference of some table *)
(* differs from the collected DatabaseInfo of the same name is never       *)
(* accepted.                                                               *)
(***************************************************************************)
HasDatabaseInfo(key) == key.database \in DOMAIN database_infos

ReferencesAgree ==
    \A key \in DOMAIN table_infos :
        HasDatabaseInfo(key) =>
            table_infos[key].database = database_infos[key.database]

AcceptedReferencesAgree == scan_pc = "done" => ReferencesAgree

MismatchNeverAccepted ==
    [][ EndOfPass /\ ~ReferencesAgree => scan_pc' # "done" ]_vars

C22_DatabaseReferencesAgree ==
    /\ []AcceptedReferencesAgree
    /\ MismatchNeverAccepted

\* a pass that collected the names of the pass before it was rejected: the
\* database d1 was replaced after the table was collected from the old one
C22_Witness ==
    /\ pc = "collect"
    /\ scan_pc = "begin"
    /\ pass >= 2
    /\ ~consistent
    /\ ~ReferencesAgree
    /\ last_pass = << Collected >>
    /\ previous_database_names = << DOMAIN database_infos >>
    /\ previous_table_names = << DOMAIN table_infos >>

=============================================================================
